---- MODULE Spec2Model ----
(***************************************************************************)
(* A model of the mCTC model definition (modeling_mctc.py) and of its      *)
(* processor wrapper (processing_mctc.py).                                 *)
(*                                                                         *)
(* Tensors are modelled by their shape and their entries; the position     *)
(* arithmetic of the code (permute, reshape, cat, slicing, fancy indexing, *)
(* flip, cumsum) is computed as the code computes it.  The learned         *)
(* arithmetic of a transformer layer is left uninterpreted: a hidden state *)
(* is the chain of layer calls that produced it.                           *)
(***************************************************************************)
EXTENDS Integers, Sequences, FiniteSets, TLC

-----------------------------------------------------------------------------
(* Bounds of the model.                                                    *)

MaxBatch == 1
MaxHeads == 2
MaxD0 == 7
MaxD1 == 4
MaxLen == 50
MaxKernel == 5
MaxStride == 2
MaxStages == 2
MaxMaskT == 3
MaxRows == 2
MaxMaskStages == 1
MaxLayers == 2
Resolution == 2
MaxHidden == 4
MaxHeadDim == 2
MaxTime == 3
MaxPositions == 2
MaxVocab == 2
MaxLabels == 4
MaxEvents == 5
MaxDepth == 2

-----------------------------------------------------------------------------
(* The state.                                                              *)

VARIABLES
    rot_pc,           \* "off", "ready", "done"
    rot_in,           \* the score tensor, (batch, heads, D0 distances, D1 positions)
    rot_out           \* relativePositionEmbeddingRotate(rot_in)

rotVars == <<rot_pc, rot_in, rot_out>>

VARIABLES
    conv_kernel,      \* config.conv_kernel
    conv_stride,      \* config.conv_stride
    num_conv_layers,  \* config.num_conv_layers
    len_pc,           \* "ready", "subsampled", "measured", "done"
    len_in,           \* the time length T of the input features
    len_sub,          \* the time length of the subsampler's output (-1: it raised)
    len_out,          \* _get_feat_extract_output_lengths(T)
    mask_in,          \* the attention mask given, [dims, rows]
    mask_F,           \* feature_vector_length
    mask_res          \* the recomputed mask, [ok, mask]

lenVars == <<conv_kernel, conv_stride, num_conv_layers,
             len_pc, len_in, len_sub, len_out, mask_in, mask_F, mask_res>>

VARIABLES
    num_hidden_layers,           \* len(self.layers)
    layerdrop,                   \* config.layerdrop, in units of 1/Resolution
    deepspeed_zero3_is_enabled,  \* is_deepspeed_zero3_enabled()
    training,                    \* self.training
    output_attentions,           \* the argument: "None", "True" or "False"
    output_hidden_states,        \* the argument: "None", "True" or "False"
    config_output_attentions,    \* self.config.output_attentions
    config_output_hidden_states, \* self.config.output_hidden_states
    return_dict,                 \* the flag, resolved against the config
    passes,                      \* the passes of this behaviour
    sync_draws,                  \* the passes read one random stream (same seed)
    stream,                      \* the draws of that stream so far
    gradient_checkpointing,      \* per pass: self.gradient_checkpointing
    head_mask,                   \* per pass: the head_mask argument
    head_mask_values,            \* per pass: its rows, one gate per layer (one head)
    pc,                          \* per pass: "off", "start", "check", "loop", "done", "error"
    idx,                         \* per pass: the loop index
    attention_mask,              \* per pass: the expanded attention mask
    hidden_states,               \* per pass
    encoder_states,              \* per pass
    all_attentions,              \* per pass
    draws,                       \* per pass: the values of dropout_probability
    calls,                       \* per pass: the arguments of each layer call
    result,                      \* per pass: what forward returned
    error                        \* per pass: the exception forward raised, or ""

encConfig == <<num_hidden_layers, layerdrop, deepspeed_zero3_is_enabled, training,
               output_attentions, output_hidden_states, config_output_attentions,
               config_output_hidden_states, return_dict, passes, sync_draws,
               gradient_checkpointing, head_mask, head_mask_values>>

encVars == <<encConfig, stream, pc, idx, attention_mask, hidden_states,
             encoder_states, all_attentions, draws, calls, result, error>>

VARIABLES
    hidden_size,               \* config.hidden_size
    num_attention_heads,       \* config.num_attention_heads
    attention_head_dim,        \* config.attention_head_dim
    has_embedding_size,        \* hasattr(config, "embedding_size")
    position_embedding_type,   \* "absolute" or "relative_key"
    max_position_embeddings,   \* config.max_position_embeddings
    att_pc,                    \* "off", "new", "built", "done", "error"
    att_in,                    \* the shape of hidden_states, (batch, time, hidden)
    att_out,                   \* the shape of the context tensor returned
    att_error                  \* the exception raised, or ""

attVars == <<hidden_size, num_attention_heads, attention_head_dim, has_embedding_size,
             position_embedding_type, max_position_embeddings, att_pc, att_in,
             att_out, att_error>>

VARIABLES
    conv_channels,    \* config.conv_channels: <<>> is None, else <<channels>>
    sub_pc,           \* "off", "new", "built", "error"
    sub_error,        \* the exception Conv1dSubsampler.__init__ raised, or ""
    in_channels,      \* self.in_channels
    out_channels,     \* self.out_channels, config.hidden_size * 2
    sub_fwd           \* forward: "idle", "ok", or why it raised: "channels", "time", "glu"

subVars == <<conv_channels, sub_pc, sub_error, in_channels, out_channels, sub_fwd>>

VARIABLES
    vocab_size,         \* config.vocab_size
    labels,             \* the labels argument, a sequence of rows
    ctc_pc,             \* "off", "start", "encoded", "validated", "done", "error"
    ctc_error,          \* the exception MCTCForCTC.forward raised, or ""
    loss_input_lengths,      \* per row, as passed to ctc_loss
    loss_target_lengths,     \* per row, as passed to ctc_loss
    flattened_targets,  \* as passed to ctc_loss
    loss_computed       \* nn.functional.ctc_loss has been called

ctcVars == <<vocab_size, labels, ctc_pc, ctc_error, loss_input_lengths, loss_target_lengths,
             flattened_targets, loss_computed>>

VARIABLES
    current_processor,  \* self.current_processor
    scopes,             \* the as_target_processor scopes control is inside of
    proc_log            \* what happened so far: calls, scope entries and exits

procVars == <<current_processor, scopes, proc_log>>

vars == <<rotVars, lenVars, encVars, attVars, subVars, ctcVars, procVars>>

-----------------------------------------------------------------------------
(* Rank-4 tensors: shape is a 4-sequence, data the entries in row-major    *)
(* (logical) order, which is the order torch's reshape reads them in.      *)


Size(shape) == shape[1] * shape[2] * shape[3] * shape[4]

Ravel(shape, ix) ==
    ((ix[1] * shape[2] + ix[2]) * shape[3] + ix[3]) * shape[4] + ix[4]

Unravel(shape, n) ==
    << n \div (shape[2] * shape[3] * shape[4]),
       (n \div (shape[3] * shape[4])) % shape[2],
       (n \div shape[4]) % shape[3],
       n % shape[4] >>

At(t, ix) == t.data[Ravel(t.shape, ix) + 1]

Build(shape, entry(_)) ==
    [shape |-> shape,
     data  |-> [n \in 1..Size(shape) |-> entry(Unravel(shape, n - 1))]]

Zeros(shape) == Build(shape, LAMBDA ix : 0)

EmptyTensor == [shape |-> <<0, 0, 0, 0>>, data |-> <<>>]

\* x.permute(*dims): axis k of the result is axis dims[k] of x.
Permute(t, dims) ==
    LET shape == [k \in 1..4 |-> t.shape[dims[k] + 1]]
        src(ix) == [d \in 1..4 |-> ix[CHOOSE k \in 1..4 : dims[k] + 1 = d]]
    IN  Build(shape, LAMBDA ix : At(t, src(ix)))

\* x.reshape(*shape): the entries in row-major order, regrouped.
Reshape(t, shape) == [shape |-> shape, data |-> t.data]

\* torch.cat((t, u), dim=1)
Cat1(t, u) ==
    LET shape == <<t.shape[1], t.shape[2] + u.shape[2], t.shape[3], t.shape[4]>>
    IN  Build(shape, LAMBDA ix :
              IF ix[2] < t.shape[2]
              THEN At(t, ix)
              ELSE At(u, <<ix[1], ix[2] - t.shape[2], ix[3], ix[4]>>))

Min(a, b) == IF a < b THEN a ELSE b

\* x[:, lo:hi] for 0 <= lo, with Python's clipping of the upper end.
Slice1(t, lo, hi) ==
    LET top   == Min(hi, t.shape[2])
        low   == Min(lo, top)
        shape == <<t.shape[1], top - low, t.shape[3], t.shape[4]>>
    IN  Build(shape, LAMBDA ix : At(t, <<ix[1], ix[2] + low, ix[3], ix[4]>>))

Reversed(s) == [k \in 1..Len(s) |-> s[Len(s) + 1 - k]]

reshape_fortran(x, shape) ==
    LET p == Permute(x, <<3, 2, 1, 0>>)
        r == Reshape(p, Reversed(shape))
    IN  Permute(r, <<3, 2, 1, 0>>)

\* A plausible slip: the centred window starts one row late.
relativePositionEmbeddingRotate_offByOne(input) ==
    LET data0 == Permute(input, <<0, 2, 3, 1>>)
        b  == data0.shape[1]
        d0 == data0.shape[2]
        d1 == data0.shape[3]
        d2 == data0.shape[4]
        data1 == Cat1(data0, Zeros(<<b, d1, d1, d2>>))
        data2 == reshape_fortran(data1, <<b, (d0 + d1) * d1, 1, d2>>)
        data3 == Slice1(data2, 0, (d1 + d0 - 1) * d1)
        data4 == reshape_fortran(data3, <<b, d0 + d1 - 1, d1, d2>>)
        n     == d0 \div 2 + 1
        data5 == Permute(Slice1(data4, n, n + d1), <<0, 2, 1, 3>>)
    IN  Permute(data5, <<0, 3, 1, 2>>)

\* A plausible slip: the two reshapes read the entries in row-major order
\* (torch's reshape) instead of column-major order.
relativePositionEmbeddingRotate_rowMajor(input) ==
    LET data0 == Permute(input, <<0, 2, 3, 1>>)
        b  == data0.shape[1]
        d0 == data0.shape[2]
        d1 == data0.shape[3]
        d2 == data0.shape[4]
        data1 == Cat1(data0, Zeros(<<b, d1, d1, d2>>))
        data2 == Reshape(data1, <<b, (d0 + d1) * d1, 1, d2>>)
        data3 == Slice1(data2, 0, (d1 + d0 - 1) * d1)
        data4 == Reshape(data3, <<b, d0 + d1 - 1, d1, d2>>)
        n     == d0 \div 2
        data5 == Permute(Slice1(data4, n, n + d1), <<0, 2, 1, 3>>)
    IN  Permute(data5, <<0, 3, 1, 2>>)

\* input: (batch, heads, D0 distances, D1 positions), the einsum 'bcle' of
\* forward: l indexes the distance table, e the query's time position.
relativePositionEmbeddingRotate(input) ==
    LET data0 == Permute(input, <<0, 2, 3, 1>>)
        b  == data0.shape[1]
        d0 == data0.shape[2]
        d1 == data0.shape[3]
        d2 == data0.shape[4]
        data1 == Cat1(data0, Zeros(<<b, d1, d1, d2>>))
        data2 == reshape_fortran(data1, <<b, (d0 + d1) * d1, 1, d2>>)
        data3 == Slice1(data2, 0, (d1 + d0 - 1) * d1)
        data4 == reshape_fortran(data3, <<b, d0 + d1 - 1, d1, d2>>)
        n     == d0 \div 2
        data5 == Permute(Slice1(data4, n, n + d1), <<0, 2, 1, 3>>)
    IN  Permute(data5, <<0, 3, 1, 2>>)

\* The score tensors the rotator is given: every entry its own non-zero
\* code, or a single non-zero entry.
CodedTensor(shape) == Build(shape, LAMBDA ix : Ravel(shape, ix) + 1)

OneHotTensor(shape, p) == Build(shape, LAMBDA ix : IF Ravel(shape, ix) + 1 = p THEN 1 ELSE 0)

ScoreShapes ==
    { <<b, h, d0, d1>> : b \in 1..MaxBatch, h \in 1..MaxHeads,
                         d0 \in 1..MaxD0, d1 \in 1..MaxD1 }

RotInit ==
    /\ rot_pc = "ready"
    /\ rot_out = EmptyTensor
    /\ \E shape \in ScoreShapes :
          \/ rot_in = CodedTensor(shape)
          \/ \E p \in 1..Size(shape) : rot_in = OneHotTensor(shape, p)

Rotate ==
    /\ rot_pc = "ready"
    /\ rot_out' = relativePositionEmbeddingRotate(rot_in)
    /\ rot_pc' = "done"
    /\ UNCHANGED <<rot_in, lenVars, encVars, attVars, subVars, ctcVars, procVars>>

-----------------------------------------------------------------------------
(* The convolutional subsampler's time axis, the length formula and the    *)
(* recomputed attention mask.                                              *)


padding == 0

dilation == 1

RECURSIVE SumSeq(_)
SumSeq(s) == IF s = <<>> THEN 0 ELSE s[1] + SumSeq(Tail(s))

\* A plausible slip: the division rounds up instead of down.
StageLength_ceil(input_lengths, kernel_sz, stride) ==
    ((input_lengths + 2 * padding - dilation * (kernel_sz - 1) - 1 + (stride - 1)) \div stride) + 1

\* A plausible slip: one frame too many is counted at every stage.
StageLength_plusTwo(input_lengths, kernel_sz, stride) ==
    ((input_lengths + 2 * padding - dilation * (kernel_sz - 1) - 1) \div stride) + 2

\* One stage of the loop of _get_feat_extract_output_lengths; // is Python's
\* floor division, and so is \div.
StageLength(input_lengths, kernel_sz, stride) ==
    ((input_lengths + 2 * padding - dilation * (kernel_sz - 1) - 1) \div stride) + 1

\* zip(range(num_conv_layers), conv_kernel, conv_stride) stops with the
\* shortest of the three.
RECURSIVE FeatExtractLoop(_, _, _, _, _)
FeatExtractLoop(i, n, kernels, strides, input_lengths) ==
    IF i > n
    THEN input_lengths
    ELSE FeatExtractLoop(i + 1, n, kernels, strides,
                         StageLength(input_lengths, kernels[i], strides[i]))

get_feat_extract_output_lengths(n, kernels, strides, input_lengths) ==
    FeatExtractLoop(1, Min(n, Min(Len(kernels), Len(strides))),
                    kernels, strides, input_lengths)

\* nn.Conv1d with padding="valid": the output length, or an error (-1) when
\* the kernel is wider than its input.
Conv1dLength(length, kernel_sz, stride) ==
    IF length < 0 \/ length < dilation * (kernel_sz - 1) + 1
    THEN -1
    ELSE ((length - dilation * (kernel_sz - 1) - 1) \div stride) + 1

RECURSIVE ConvLayersLoop(_, _, _, _)
ConvLayersLoop(i, kernels, strides, length) ==
    IF i > Len(kernels) \/ length < 0
    THEN length
    ELSE ConvLayersLoop(i + 1, kernels, strides,
                        Conv1dLength(length, kernels[i], strides[i]))

\* The time length of Conv1dSubsampler.forward's result for an input of time
\* length T (-1: the convolution raises).  The gated linear unit and the
\* dropout leave the time axis alone.
Conv1dSubsampler_forward(kernels, strides, T) ==
    LET pad == SumSeq([i \in 1..Len(kernels) |-> kernels[i] \div 2])
    IN  ConvLayersLoop(1, kernels, strides, T + 2 * pad)

\* x.flip([-1]) and x.cumsum(-1) on one row.
Flip(row) == [t \in 1..Len(row) |-> row[Len(row) + 1 - t]]

RECURSIVE PrefixSum(_, _)
PrefixSum(row, t) == IF t = 0 THEN 0 ELSE row[t] + PrefixSum(row, t - 1)

Cumsum(row) == [t \in 1..Len(row) |-> PrefixSum(row, t)]

\* An attention mask is a sequence of rows; a row of a 2-D mask is a
\* sequence of 0/1, a row of a 3-D mask a sequence of sequences of 0/1.
\* attention_mask[:, :, -1] keeps the last entry of the third axis.
LastChannel(mask3) ==
    [b \in 1..Len(mask3) |-> [t \in 1..Len(mask3[b]) |-> mask3[b][t][Len(mask3[b][t])]]]

MaskResult(ok, rows) == [ok |-> ok, mask |-> rows]

\* A plausible slip: the marked position is not spread to the front.
get_feature_vector_attention_mask_noCumsum(n, kernels, strides, feature_vector_length, mask) ==
    LET mask_2d == IF mask.dims > 2 THEN LastChannel(mask.rows) ELSE mask.rows
        bsz == Len(mask_2d)
        lens == [b \in 1..bsz |->
                   get_feat_extract_output_lengths(n, kernels, strides, SumSeq(mask_2d[b]))]
        pos(b) == IF lens[b] - 1 < 0 THEN lens[b] - 1 + feature_vector_length ELSE lens[b] - 1
    IN  IF \E b \in 1..bsz : lens[b] - 1 >= feature_vector_length
                              \/ lens[b] - 1 < -feature_vector_length
        THEN MaskResult(FALSE, <<>>)
        ELSE MaskResult(TRUE,
               [b \in 1..bsz |-> [t \in 1..feature_vector_length |->
                                     IF t - 1 = pos(b) THEN 1 ELSE 0]])

\* _get_feature_vector_attention_mask; the index assignment raises
\* (ok = FALSE) when an index is outside -F..F-1, and a negative index counts
\* from the end of the row.
get_feature_vector_attention_mask(n, kernels, strides, feature_vector_length, mask) ==
    LET mask_2d == IF mask.dims > 2 THEN LastChannel(mask.rows) ELSE mask.rows
        bsz == Len(mask_2d)
        subsampled_lengths ==
            [b \in 1..bsz |->
               get_feat_extract_output_lengths(n, kernels, strides, SumSeq(mask_2d[b]))]
        index(b) == subsampled_lengths[b] - 1
        pos(b) == IF index(b) < 0 THEN index(b) + feature_vector_length ELSE index(b)
        marked == [b \in 1..bsz |-> [t \in 1..feature_vector_length |->
                                        IF t - 1 = pos(b) THEN 1 ELSE 0]]
    IN  IF \E b \in 1..bsz : index(b) >= feature_vector_length
                              \/ index(b) < -feature_vector_length
        THEN MaskResult(FALSE, <<>>)
        ELSE MaskResult(TRUE, [b \in 1..bsz |-> Flip(Cumsum(Flip(marked[b])))])

\* The configurations and inputs of the model.
SeqsOf(S, n) == UNION { [1..k -> S] : k \in 1..n }

ConvConfigs(stages) ==
    { c \in SeqsOf((1..MaxKernel) \X (1..MaxStride), stages) : TRUE }

Kernels(c) == [i \in 1..Len(c) |-> c[i][1]]

Strides(c) == [i \in 1..Len(c) |-> c[i][2]]

NoMask == [dims |-> 2, rows |-> <<>>]

Masks2D == { [dims |-> 2, rows |-> r] :
             r \in UNION { [1..b -> [1..t -> {0, 1}]] : b \in 1..MaxRows, t \in 1..MaxMaskT } }

\* A 3-D mask of one row whose third axis holds a filler and then the mask.
Masks3D == { [dims |-> 3, rows |-> << [t \in 1..Len(r) |-> <<c, r[t]>>] >>] :
             r \in UNION { [1..t -> {0, 1}] : t \in 1..MaxMaskT }, c \in {0, 1} }

MaskTime(mask) == Len(mask.rows[1])

LenInit ==
    /\ len_pc = "ready"
    /\ len_sub = -1
    /\ len_out = 0
    /\ mask_F = 0
    /\ mask_res = MaskResult(FALSE, <<>>)
    /\ \/ /\ mask_in = NoMask
          /\ len_in \in 0..MaxLen
          /\ \E c \in ConvConfigs(MaxStages) :
                /\ conv_kernel = Kernels(c)
                /\ conv_stride = Strides(c)
                /\ num_conv_layers = Len(c)
       \/ /\ mask_in \in Masks2D \cup Masks3D
          /\ len_in = MaskTime(mask_in)
          /\ \E c \in ConvConfigs(MaxMaskStages) :
                /\ conv_kernel = Kernels(c)
                /\ conv_stride = Strides(c)
                /\ num_conv_layers = Len(c)

\* inputs_embeds = self.conv(input_features)
CallSubsampler ==
    /\ len_pc = "ready"
    /\ len_sub' = Conv1dSubsampler_forward(conv_kernel, conv_stride, len_in)
    /\ len_pc' = "subsampled"
    /\ UNCHANGED <<conv_kernel, conv_stride, num_conv_layers, len_in, len_out,
                   mask_in, mask_F, mask_res, rotVars, encVars, attVars, subVars, ctcVars, procVars>>

\* self._get_feat_extract_output_lengths(T)
CallGetLengths ==
    /\ len_pc = "subsampled"
    /\ len_out' = get_feat_extract_output_lengths(num_conv_layers, conv_kernel,
                                                  conv_stride, len_in)
    /\ len_pc' = "measured"
    /\ UNCHANGED <<conv_kernel, conv_stride, num_conv_layers, len_in, len_sub,
                   mask_in, mask_F, mask_res, rotVars, encVars, attVars, subVars, ctcVars, procVars>>

\* self._get_feature_vector_attention_mask(F, attention_mask): the encoder
\* passes F = inputs_embeds.shape[1]; another caller may pass any F.
CallGetMask ==
    /\ len_pc = "measured"
    /\ mask_in # NoMask
    /\ \E F \in (1..MaxMaskT) \cup {len_sub} :
          /\ F >= 0
          /\ mask_F' = F
          /\ mask_res' = get_feature_vector_attention_mask(
                            num_conv_layers, conv_kernel, conv_stride, F, mask_in)
    /\ len_pc' = "done"
    /\ UNCHANGED <<conv_kernel, conv_stride, num_conv_layers, len_in, len_sub,
                   len_out, mask_in, rotVars, encVars, attVars, subVars, ctcVars, procVars>>

-----------------------------------------------------------------------------
(* MCTCEncoder.forward.  Two forward passes (two replicas of the encoder,  *)
(* or two calls) may be in flight; a pass is a sequence of steps: the      *)
(* embedding (lines 782-813), the head-mask check (815-821), one step per  *)
(* layer (822-858) and the return (860-867).                               *)


Passes == {1, 2}

\* random.uniform(0, 1) is 0 + (1 - 0) * random.random(), a value of [0, 1).
Draws == 0..(Resolution - 1)

LayerDrops == 0..Resolution

\* Values of the forward pass.  A tensor computed by the layers is the chain
\* of layer calls behind it: each link names the layer and what the head
\* gate did to the attention probabilities.
Term(kind, time, chain) == [kind |-> kind, time |-> time, chain |-> chain]

None == Term("None", 0, <<>>)

NoHeadMask == [given |-> FALSE, rows |-> 0]

HeadMaskOf(rows) == [given |-> TRUE, rows |-> rows]

\* The rows of a head mask, every gate of it being `gate`; none for None.
HeadMaskRows(mask, gate) == IF mask.given THEN [i \in 1..mask.rows |-> gate] ELSE <<>>

NoAttentionMask == [given |-> FALSE, rows |-> <<>>]

\* _expand_mask: [bsz, src_len] -> [bsz, 1, tgt_len, src_len], 0 where the
\* mask is 1 and the most negative float (here -1) elsewhere.
expand_mask(mask) ==
    [given |-> TRUE,
     rows  |-> [b \in 1..Len(mask) |->
                  [tgt \in 1..Len(mask[b]) |->
                     [src \in 1..Len(mask[b]) |->
                        IF 1 - mask[b][src] # 0 THEN -1 ELSE 0]]]]

\* A plausible slip: the argument is ignored and the config decides.
Resolve_ignoresArgument(arg, default) == default

\* x if x is not None else default
Resolve(arg, default) == IF arg = "None" THEN default ELSE arg = "True"

\* MCTCSelfAttention.forward, lines 439-442: a head mask of None leaves the
\* probabilities alone; the probabilities are multiplied by any other value.
HeadGate(head_mask_arg) ==
    CASE head_mask_arg = "None"  -> "identity"
      [] head_mask_arg = "True"  -> "identity"
      [] head_mask_arg = "False" -> "zeroed"

\* MCTCLayer.forward on MCTCAttention.forward on MCTCSelfAttention.forward:
\* the tuple (layer_output,) + (attention_scores, attention_probs,
\* value_layer, save_dict) if output_attentions else (layer_output,).
MCTCLayer_forward(layer, hidden, attn_mask, head_mask_arg, out_attn) ==
    LET chain == Append(hidden.chain, [layer |-> layer, gate |-> HeadGate(head_mask_arg)])
    IN  <<Term("hidden_states", hidden.time, chain)>>
        \o (IF out_attn
            THEN <<Term("attention_scores", hidden.time, chain),
                   Term("attention_probs", hidden.time, chain),
                   Term("value_layer", hidden.time, chain),
                   Term("save_dict", hidden.time, chain)>>
            ELSE <<>>)

\* The arguments the layer is called with.  On the checkpointed path
\* custom_forward(hidden_states, attention_mask) calls
\* module(hidden_states, attention_mask, output_attentions): the flag lands
\* in the third positional parameter, head_mask.
BoolStr(b) == IF b THEN "True" ELSE "False"

\* A plausible slip: the head mask's row of the layer is handed to the layer,
\* as line 843 (commented out) would.  The pass that is running is the second
\* one once the first has finished.
LayerArgs_withHeadMask(checkpointed, layer, hidden, attn_mask, out_attn) ==
    LET p   == IF pc[1] \in {"done", "error"} /\ 2 \in passes THEN 2 ELSE 1
        row == IF head_mask[p].given /\ layer < Len(head_mask_values[p])
               THEN BoolStr(head_mask_values[p][layer + 1] = 1)
               ELSE "None"
    IN  [layer |-> layer, hidden_states |-> hidden, attention_mask |-> attn_mask,
         head_mask |-> row, output_attentions |-> out_attn]

LayerArgs(checkpointed, layer, hidden, attn_mask, out_attn) ==
    IF checkpointed
    THEN [layer |-> layer, hidden_states |-> hidden, attention_mask |-> attn_mask,
          head_mask |-> BoolStr(out_attn), output_attentions |-> FALSE]
    ELSE [layer |-> layer, hidden_states |-> hidden, attention_mask |-> attn_mask,
          head_mask |-> "None", output_attentions |-> out_attn]

\* A plausible slip: the comparison is turned around.
skip_the_layer_flipped(is_training, dropout_probability, drop) ==
    is_training /\ (dropout_probability > drop)

\* A plausible slip: layers are dropped in evaluation mode as well.
skip_the_layer_always(is_training, dropout_probability, drop) ==
    dropout_probability < drop

\* A plausible slip: the decision reads state an earlier call left behind, so
\* that layers are dropped only until a first call has finished.
skip_the_layer_firstCallOnly(is_training, dropout_probability, drop) ==
    is_training /\ (dropout_probability < drop) /\ pc[1] \notin {"done", "error"}

skip_the_layer(is_training, dropout_probability, drop) ==
    is_training /\ (dropout_probability < drop)

\* if not skip_the_layer or deepspeed_zero3_is_enabled:
RunsLayer(skip, zero3) == ~skip \/ zero3

\* A plausible slip: the check compares against one layer too many.
HeadMaskAccepted_offByOne(mask, layers) ==
    ~mask.given \/ mask.rows = layers + 1

\* if head_mask is not None: assert head_mask.size()[0] == len(self.layers)
HeadMaskAccepted(mask, layers) ==
    ~mask.given \/ mask.rows = layers

NoResult == [returned |-> FALSE, last_hidden_state |-> None, hidden_states |-> <<>>,
             attentions |-> <<>>, fields |-> <<>>]

OutputAttentions == Resolve(output_attentions, config_output_attentions)

OutputHiddenStates == Resolve(output_hidden_states, config_output_hidden_states)

\* The inputs of the modelled passes: (conv_kernel, conv_stride, T, mask).
EncInputs ==
    { <<(<<1>>), (<<1>>), 2, NoMask>>,
      <<(<<1>>), (<<1>>), 2, [dims |-> 2, rows |-> << <<1, 0>> >>]>>,
      <<(<<3>>), (<<1>>), 1, [dims |-> 2, rows |-> << <<0>> >>]>>,
      <<(<<1, 5>>), (<<2, 1>>), 1, NoMask>> }

EncIdle ==
    /\ num_hidden_layers = 0
    /\ layerdrop = 0
    /\ deepspeed_zero3_is_enabled = FALSE
    /\ training = FALSE
    /\ output_attentions = "None"
    /\ output_hidden_states = "None"
    /\ config_output_attentions = FALSE
    /\ config_output_hidden_states = FALSE
    /\ return_dict = TRUE
    /\ passes = {}
    /\ sync_draws = FALSE
    /\ stream = <<>>
    /\ gradient_checkpointing = [p \in Passes |-> FALSE]
    /\ head_mask = [p \in Passes |-> NoHeadMask]
    /\ head_mask_values = [p \in Passes |-> <<>>]
    /\ pc = [p \in Passes |-> "off"]
    /\ idx = [p \in Passes |-> 0]
    /\ attention_mask = [p \in Passes |-> NoAttentionMask]
    /\ hidden_states = [p \in Passes |-> None]
    /\ encoder_states = [p \in Passes |-> <<>>]
    /\ all_attentions = [p \in Passes |-> <<>>]
    /\ draws = [p \in Passes |-> <<>>]
    /\ calls = [p \in Passes |-> <<>>]
    /\ result = [p \in Passes |-> NoResult]
    /\ error = [p \in Passes |-> ""]

\* The state after construction and before the forward calls of `active`.
EncStart(active) ==
    /\ passes = active
    /\ stream = <<>>
    /\ pc = [p \in Passes |-> IF p \in active THEN "start" ELSE "off"]
    /\ idx = [p \in Passes |-> 0]
    /\ attention_mask = [p \in Passes |-> NoAttentionMask]
    /\ hidden_states = [p \in Passes |-> None]
    /\ encoder_states = [p \in Passes |-> <<>>]
    /\ all_attentions = [p \in Passes |-> <<>>]
    /\ draws = [p \in Passes |-> <<>>]
    /\ calls = [p \in Passes |-> <<>>]
    /\ result = [p \in Passes |-> NoResult]
    /\ error = [p \in Passes |-> ""]

EncInputInit ==
    /\ len_pc = "off"
    /\ len_sub = -1
    /\ len_out = 0
    /\ mask_F = 0
    /\ mask_res = MaskResult(FALSE, <<>>)
    /\ \E i \in EncInputs :
          /\ conv_kernel = i[1]
          /\ conv_stride = i[2]
          /\ num_conv_layers = Len(i[1])
          /\ len_in = i[3]
          /\ mask_in = i[4]

Fail(p, exception) ==
    /\ pc' = [pc EXCEPT ![p] = "error"]
    /\ error' = [error EXCEPT ![p] = exception]
    /\ UNCHANGED <<idx, attention_mask, hidden_states, encoder_states, all_attentions,
                   draws, calls, result, stream>>

\* Lines 782-813: resolve the flags, normalise, subsample, recompute and
\* expand the attention mask, apply dropout, start the collections.
Embed(p) ==
    /\ pc[p] = "start"
    /\ (sync_draws /\ p # 1) => pc[1] \in {"done", "error"}
    /\ LET F   == Conv1dSubsampler_forward(conv_kernel, conv_stride, len_in)
           res == IF mask_in = NoMask \/ F < 0
                  THEN MaskResult(TRUE, <<>>)
                  ELSE get_feature_vector_attention_mask(
                           num_conv_layers, conv_kernel, conv_stride, F, mask_in)
       IN  IF F < 0
           THEN Fail(p, "RuntimeError")
           ELSE IF ~res.ok
           THEN Fail(p, "IndexError")
           ELSE /\ attention_mask' = [attention_mask EXCEPT ![p] =
                                        IF mask_in = NoMask THEN NoAttentionMask
                                        ELSE expand_mask(res.mask)]
                /\ hidden_states' = [hidden_states EXCEPT ![p] = Term("hidden_states", F, <<>>)]
                /\ encoder_states' = [encoder_states EXCEPT ![p] = <<>>]
                /\ all_attentions' = [all_attentions EXCEPT ![p] = <<>>]
                /\ pc' = [pc EXCEPT ![p] = "check"]
                /\ UNCHANGED <<idx, draws, calls, result, stream, error>>
    /\ UNCHANGED <<encConfig, lenVars, rotVars, attVars, subVars, ctcVars, procVars>>

\* Lines 815-821.
CheckHeadMask(p) ==
    /\ pc[p] = "check"
    /\ IF HeadMaskAccepted(head_mask[p], num_hidden_layers)
       THEN /\ pc' = [pc EXCEPT ![p] = "loop"]
            /\ idx' = [idx EXCEPT ![p] = 0]
            /\ UNCHANGED <<attention_mask, hidden_states, encoder_states, all_attentions,
                           draws, calls, result, stream, error>>
       ELSE Fail(p, "AssertionError")
    /\ UNCHANGED <<encConfig, lenVars, rotVars, attVars, subVars, ctcVars, procVars>>

\* Lines 822-858: one iteration of the loop over self.layers.
LayerStep(p) ==
    /\ pc[p] = "loop"
    /\ idx[p] < num_hidden_layers
    /\ \E dropout_probability \in Draws :
          /\ (sync_draws /\ Len(stream) > idx[p]) => dropout_probability = stream[idx[p] + 1]
          /\ stream' = IF sync_draws /\ Len(stream) = idx[p]
                       THEN Append(stream, dropout_probability) ELSE stream
          /\ draws' = [draws EXCEPT ![p] = Append(@, dropout_probability)]
          /\ LET skip  == skip_the_layer(training, dropout_probability, layerdrop)
                 runs  == RunsLayer(skip, deepspeed_zero3_is_enabled)
                 args  == LayerArgs(gradient_checkpointing[p] /\ training, idx[p],
                                    hidden_states[p], attention_mask[p], OutputAttentions)
                 outs  == MCTCLayer_forward(args.layer, args.hidden_states,
                                            args.attention_mask, args.head_mask,
                                            args.output_attentions)
                 layer_outputs == IF skip THEN <<None, None>> ELSE outs
             IN  /\ encoder_states' = [encoder_states EXCEPT ![p] =
                                         IF OutputHiddenStates
                                         THEN Append(@, hidden_states[p]) ELSE @]
                 /\ hidden_states' = [hidden_states EXCEPT ![p] =
                                         IF runs THEN outs[1] ELSE @]
                 /\ calls' = [calls EXCEPT ![p] = IF runs THEN Append(@, args) ELSE @]
                 /\ IF OutputAttentions /\ Len(layer_outputs) < 2
                    THEN \* layer_outputs[1] raises IndexError
                         /\ pc' = [pc EXCEPT ![p] = "error"]
                         /\ error' = [error EXCEPT ![p] = "IndexError"]
                         /\ UNCHANGED <<idx, all_attentions>>
                    ELSE /\ all_attentions' = [all_attentions EXCEPT ![p] =
                                                 IF OutputAttentions
                                                 THEN Append(@, layer_outputs[2]) ELSE @]
                         /\ idx' = [idx EXCEPT ![p] = @ + 1]
                         /\ UNCHANGED <<pc, error>>
    /\ UNCHANGED <<encConfig, attention_mask, result, lenVars, rotVars, attVars, subVars, ctcVars, procVars>>

\* Lines 860-867.
Return(p) ==
    /\ pc[p] = "loop"
    /\ idx[p] = num_hidden_layers
    /\    LET final == IF OutputHiddenStates
                       THEN Append(encoder_states[p], hidden_states[p])
                       ELSE encoder_states[p]
          IN  /\ encoder_states' = [encoder_states EXCEPT ![p] = final]
              /\ result' = [result EXCEPT ![p] =
                   [returned |-> TRUE,
                    last_hidden_state |-> hidden_states[p],
                    hidden_states |-> final,
                    attentions |-> all_attentions[p],
                    fields |-> IF return_dict
                               THEN <<"last_hidden_state", "hidden_states", "attentions">>
                               ELSE <<"last_hidden_state">>
                                    \o (IF OutputHiddenStates THEN <<"hidden_states">> ELSE <<>>)
                                    \o (IF OutputAttentions THEN <<"attentions">> ELSE <<>>)]]
    /\ pc' = [pc EXCEPT ![p] = "done"]
    /\ UNCHANGED <<encConfig, idx, attention_mask, hidden_states, all_attentions,
                   draws, calls, stream, error, lenVars, rotVars, attVars, subVars, ctcVars, procVars>>

\* The configuration the passes share.
EncSharedInit ==
    /\ num_hidden_layers \in 1..MaxLayers
    /\ layerdrop \in LayerDrops
    /\ deepspeed_zero3_is_enabled \in BOOLEAN
    /\ training \in BOOLEAN
    /\ return_dict \in BOOLEAN

Flags == {"None", "True", "False"}

\* One forward pass, every configuration.
EncInit ==
    /\ EncInputInit
    /\ EncStart({1})
    /\ sync_draws = FALSE
    /\ output_attentions \in Flags
    /\ output_hidden_states \in Flags
    /\ config_output_attentions \in BOOLEAN
    /\ config_output_hidden_states \in BOOLEAN
    /\ output_attentions # "None" => config_output_attentions = FALSE
    /\ output_hidden_states # "None" => config_output_hidden_states = FALSE
    /\ EncSharedInit
    /\ \E g \in BOOLEAN, h \in {NoHeadMask} \cup {HeadMaskOf(n) : n \in 1..(MaxLayers + 1)} :
          /\ gradient_checkpointing = [p \in Passes |-> g]
          /\ head_mask = [p \in Passes |-> h]
          /\ head_mask_values = [p \in Passes |-> HeadMaskRows(h, 1)]

\* Two forward passes on the same input.  With sync_draws they are two calls,
\* one after the other, that read the same draws (the generator is seeded
\* anew) and differ in at most the checkpointing flag or the head mask.
\* The gates of the first pass's head mask are 1, those of the second 0 or 1.
\* Without, they are two replicas of one encoder, each with its own random
\* stream, running at the same time.
PairInit ==
    /\ EncInputInit
    /\ mask_in = NoMask => len_in = 2
    /\ mask_in # NoMask => MaskTime(mask_in) = 2
    /\ EncStart(Passes)
    /\ EncSharedInit
    /\ output_attentions \in {"True", "False"}
    /\ output_hidden_states \in {"True", "False"}
    /\ config_output_attentions = FALSE
    /\ config_output_hidden_states = FALSE
    /\ return_dict
    /\ sync_draws \in BOOLEAN
    /\ gradient_checkpointing \in [Passes -> BOOLEAN]
    /\ head_mask \in [Passes -> {NoHeadMask, HeadMaskOf(num_hidden_layers)}]
    /\ \E gate \in { g \in [Passes -> {0, 1}] : g[1] = 1 } :
          head_mask_values = [p \in Passes |-> HeadMaskRows(head_mask[p], gate[p])]
    /\ ~sync_draws => /\ gradient_checkpointing[1] = gradient_checkpointing[2]
                       /\ head_mask = [p \in Passes |-> NoHeadMask]
                       /\ mask_in = NoMask
                       /\ output_hidden_states = "False"
    /\ sync_draws => \/ gradient_checkpointing[1] = gradient_checkpointing[2]
                     \/ head_mask[1] = head_mask[2]

-----------------------------------------------------------------------------
(* MCTCSelfAttention: the constructor's check and the shapes of forward.   *)
(* A shape is the sequence of a tensor's sizes; <<>> stands for a shape    *)
(* error.                                                                  *)

\* Lines 277-281: the constructor raises ValueError when hidden_size is no
\* multiple of num_attention_heads and the config has no embedding_size.
SelfAttentionAccepts(hidden, heads, has_embedding) ==
    ~(hidden % heads # 0 /\ ~has_embedding)

\* Lines 285-287: attention_head_size = config.attention_head_dim.
all_head_size(heads, head_dim) == heads * head_dim

\* x.view(batch, time, heads, head_size).permute(0, 2, 1, 3)
transpose_for_scores(x, heads, head_size) ==
    IF x[3] = heads * head_size
    THEN <<x[1], heads, x[2], head_size>>
    ELSE <<>>

Max(a, b) == IF a > b THEN a ELSE b

\* The shape of a + b under broadcasting.
Broadcast(a, b) ==
    IF a = <<>> \/ b = <<>> \/ Len(a) # Len(b) THEN <<>>
    ELSE IF \A k \in 1..Len(a) : a[k] = b[k] \/ a[k] = 1 \/ b[k] = 1
         THEN [k \in 1..Len(a) |-> Max(a[k], b[k])]
         ELSE <<>>

\* torch.matmul of (b, h, n, m) and (b, h, m, k).
Matmul(a, b) ==
    IF a = <<>> \/ b = <<>> THEN <<>>
    ELSE IF a[1] = b[1] /\ a[2] = b[2] /\ a[4] = b[3]
         THEN <<a[1], a[2], a[3], b[4]>>
         ELSE <<>>

\* The shape of the context tensor forward returns for hidden_states of
\* shape x (no attention mask, no head mask).
MCTCSelfAttention_forward(x, heads, head_size, position_type, max_positions) ==
    LET mixed_query_layer == <<x[1], x[2], all_head_size(heads, head_size)>>
        key_layer   == transpose_for_scores(mixed_query_layer, heads, head_size)
        value_layer == transpose_for_scores(mixed_query_layer, heads, head_size)
        query_layer == transpose_for_scores(mixed_query_layer, heads, head_size)
        key_T       == <<key_layer[1], key_layer[2], key_layer[4], key_layer[3]>>
        scores      == Matmul(query_layer, key_T)
        \* einsum 'lh, bche -> bcle' of the (2 * max_positions - 1, head_size)
        \* table and query_layer.transpose(2, 3)
        relative    == relativePositionEmbeddingRotate(
                           Zeros(<<x[1], heads, 2 * max_positions - 1, x[2]>>)).shape
        attention_scores == IF position_type = "relative_key"
                            THEN Broadcast(scores, relative)
                            ELSE scores
        context_layer == Matmul(attention_scores, value_layer)
    IN  IF context_layer = <<>>
        THEN <<>>
        ELSE \* permute(0, 2, 1, 3).flatten(start_dim=-2)
             <<context_layer[1], context_layer[3], context_layer[2] * context_layer[4]>>

AttIdle ==
    /\ hidden_size = 0
    /\ num_attention_heads = 0
    /\ attention_head_dim = 0
    /\ has_embedding_size = FALSE
    /\ position_embedding_type = "absolute"
    /\ max_position_embeddings = 0
    /\ att_pc = "off"
    /\ att_in = <<>>
    /\ att_out = <<>>
    /\ att_error = ""

AttInit ==
    /\ hidden_size \in 1..MaxHidden
    /\ num_attention_heads \in 1..MaxHeads
    /\ attention_head_dim \in 1..MaxHeadDim
    /\ has_embedding_size \in BOOLEAN
    /\ position_embedding_type \in {"absolute", "relative_key"}
    /\ max_position_embeddings \in 1..MaxPositions
    /\ att_pc = "new"
    /\ \E b \in 1..MaxBatch, t \in 1..MaxTime : att_in = <<b, t, hidden_size>>
    /\ att_out = <<>>
    /\ att_error = ""

\* MCTCSelfAttention.__init__
AttConstruct ==
    /\ att_pc = "new"
    /\ IF SelfAttentionAccepts(hidden_size, num_attention_heads, has_embedding_size)
       THEN att_pc' = "built" /\ att_error' = ""
       ELSE att_pc' = "error" /\ att_error' = "ValueError"
    /\ UNCHANGED <<hidden_size, num_attention_heads, attention_head_dim, has_embedding_size,
                   position_embedding_type, max_position_embeddings, att_in, att_out,
                   rotVars, lenVars, encVars, subVars, ctcVars, procVars>>

\* MCTCSelfAttention.forward
AttForward ==
    /\ att_pc = "built"
    /\ LET context == MCTCSelfAttention_forward(att_in, num_attention_heads,
                          attention_head_dim, position_embedding_type,
                          max_position_embeddings)
       IN  IF context = <<>>
           THEN att_pc' = "error" /\ att_error' = "RuntimeError" /\ att_out' = <<>>
           ELSE att_pc' = "done" /\ att_error' = "" /\ att_out' = context
    /\ UNCHANGED <<hidden_size, num_attention_heads, attention_head_dim, has_embedding_size,
                   position_embedding_type, max_position_embeddings, att_in,
                   rotVars, lenVars, encVars, subVars, ctcVars, procVars>>

-----------------------------------------------------------------------------
(* Conv1dSubsampler.__init__.                                              *)

NoChannels == [given |-> FALSE, channels |-> <<>>]

ChannelsOf(c) == [given |-> TRUE, channels |-> c]

\* x[i] for a list x or None: the exception it raises, or "".
IndexingError(x, i) ==
    IF ~x.given THEN "TypeError"
    ELSE IF i >= Len(x.channels) THEN "IndexError"
    ELSE ""

\* Lines 186-195: the arguments of the i-th nn.Conv1d, evaluated in order;
\* the exception their evaluation raises, or "".
ConvStageError(i, num_layers, mid_channels, strides) ==
    IF i # 0 /\ IndexingError(mid_channels, i) # ""
    THEN IndexingError(mid_channels, i)
    ELSE IF i < num_layers - 1 /\ IndexingError(mid_channels, i) # ""
    THEN IndexingError(mid_channels, i)
    ELSE IF i >= Len(strides) THEN "IndexError"
    ELSE ""

FirstStageError(num_layers, mid_channels, kernels, strides) ==
    LET failing == { i \in 0..(Len(kernels) - 1) :
                       ConvStageError(i, num_layers, mid_channels, strides) # "" }
    IN  IF failing = {} THEN ""
        ELSE ConvStageError(CHOOSE i \in failing : \A j \in failing : i <= j,
                            num_layers, mid_channels, strides)

\* A plausible slip: the check of conv_channels is left out.
Conv1dSubsampler_init_noCheck(num_layers, channels, kernels, strides) ==
    FirstStageError(num_layers, IF num_layers > 1 THEN channels ELSE NoChannels,
                    kernels, strides)

\* Conv1dSubsampler.__init__: the exception it raises, or "".
Conv1dSubsampler_init(num_layers, channels, kernels, strides) ==
    IF num_layers > 1 /\ ~channels.given
    THEN "ValueError"
    ELSE FirstStageError(num_layers, IF num_layers > 1 THEN channels ELSE NoChannels,
                         kernels, strides)

SubIdle ==
    /\ conv_channels = NoChannels
    /\ sub_pc = "off"
    /\ sub_error = ""
    /\ in_channels = 0
    /\ out_channels = 0
    /\ sub_fwd = "idle"

SubInit ==
    /\ conv_kernel \in SeqsOf({1, 3}, MaxStages)
    /\ conv_stride \in SeqsOf({1, 2}, MaxStages)
    /\ num_conv_layers \in 1..(MaxStages + 1)
    /\ conv_channels \in {NoChannels} \cup { ChannelsOf(c) : c \in SeqsOf({1, 2}, MaxStages) }
    /\ sub_pc = "new"
    /\ sub_error = ""
    /\ in_channels \in {1, 2}
    /\ \E hidden \in {1, 2} : out_channels = hidden * 2
    /\ sub_fwd = "idle"
    /\ len_pc = "off"
    /\ len_in = MaxKernel
    /\ len_sub = -1
    /\ len_out = 0
    /\ mask_in = NoMask
    /\ mask_F = 0
    /\ mask_res = MaskResult(FALSE, <<>>)

\* Conv1dSubsampler(config)
SubConstruct ==
    /\ sub_pc = "new"
    /\ sub_error' = Conv1dSubsampler_init(num_conv_layers, conv_channels,
                                          conv_kernel, conv_stride)
    /\ sub_pc' = IF sub_error' = "" THEN "built" ELSE "error"
    /\ UNCHANGED <<conv_channels, in_channels, out_channels, sub_fwd,
                   rotVars, lenVars, encVars, attVars, ctcVars, procVars>>

\* Lines 188-189: the channels the i-th nn.Conv1d is declared with.
DeclaredIn(i, num_layers, channels, in_ch) ==
    IF i = 0 THEN in_ch ELSE channels.channels[i + 1]

DeclaredOut(i, num_layers, channels, out_ch) ==
    IF i < num_layers - 1 THEN channels.channels[i + 1] ELSE out_ch

\* Lines 203-206: the loop over the convolutions from stage i on, for
\* hidden_states of `ch` channels and time length `length`: "ok", or why the
\* stage raises.  nn.Conv1d refuses an input whose channels are not the
\* declared ones or that is shorter than the kernel; the gated linear unit
\* halves the channels and refuses an odd number of them.
RECURSIVE ConvChannelsLoop(_, _, _, _, _, _, _)
ConvChannelsLoop(i, num_layers, channels, kernels, strides, ch, length) ==
    IF i >= Len(kernels) THEN "ok"
    ELSE LET mid == IF num_layers > 1 THEN channels ELSE NoChannels
             out == DeclaredOut(i, num_layers, mid, out_channels)
         IN  IF ch # DeclaredIn(i, num_layers, mid, in_channels) THEN "channels"
             ELSE IF Conv1dLength(length, kernels[i + 1], strides[i + 1]) < 0 THEN "time"
             ELSE IF out % 2 # 0 THEN "glu"
             ELSE ConvChannelsLoop(i + 1, num_layers, channels, kernels, strides, out \div 2,
                                   Conv1dLength(length, kernels[i + 1], strides[i + 1]))

\* Conv1dSubsampler.forward on input_features of self.in_channels features
\* and time length len_in.
SubForward ==
    /\ sub_pc = "built"
    /\ sub_fwd = "idle"
    /\ LET pad == SumSeq([i \in 1..Len(conv_kernel) |-> conv_kernel[i] \div 2])
       IN  sub_fwd' = ConvChannelsLoop(0, num_conv_layers, conv_channels, conv_kernel,
                                       conv_stride, in_channels, len_in + 2 * pad)
    /\ UNCHANGED <<conv_channels, sub_pc, sub_error, in_channels, out_channels,
                   rotVars, lenVars, encVars, attVars, ctcVars, procVars>>

-----------------------------------------------------------------------------
(* MCTCForCTC.forward with labels: the validation of the labels and the    *)
(* lengths and targets handed to nn.functional.ctc_loss.  labels is a      *)
(* sequence of rows of equal length.                                       *)

RECURSIVE Flatten(_)
Flatten(rows) == IF rows = <<>> THEN <<>> ELSE rows[1] \o Flatten(Tail(rows))

\* labels.max()
TensorMax(t) ==
    LET flat == Flatten(t)
    IN  CHOOSE m \in { flat[k] : k \in 1..Len(flat) } : \A k \in 1..Len(flat) : flat[k] <= m

\* Lines 1004-1005: if labels.max() >= self.config.vocab_size: raise ValueError
LabelsRejected(label_rows, vocab) == TensorMax(label_rows) >= vocab

\* The attention mask, or torch.ones(input_features.shape[:-1]).
OnesIfNone(mask, bsz, T) ==
    IF mask = NoMask THEN [b \in 1..bsz |-> [t \in 1..T |-> 1]] ELSE mask.rows

\* A plausible slip: the length of the mask's rows instead of their sum.
ctc_input_lengths_rowLength(n, kernels, strides, mask, bsz, T) ==
    LET attention_mask_rows == OnesIfNone(mask, bsz, T)
    IN  [b \in 1..bsz |->
           get_feat_extract_output_lengths(n, kernels, strides, Len(attention_mask_rows[b]))]

\* Lines 1008-1013: self._get_feat_extract_output_lengths(attention_mask.sum(-1))
ctc_input_lengths(n, kernels, strides, mask, bsz, T) ==
    LET attention_mask_rows == OnesIfNone(mask, bsz, T)
    IN  [b \in 1..bsz |->
           get_feat_extract_output_lengths(n, kernels, strides, SumSeq(attention_mask_rows[b]))]

\* A plausible slip: only the sentinel -100 is masked out.
labels_mask_sentinelOnly(label_rows) ==
    [b \in 1..Len(label_rows) |-> [t \in 1..Len(label_rows[b]) |-> label_rows[b][t] # -100]]

\* Line 1016: labels_mask = labels >= 0
labels_mask(label_rows) ==
    [b \in 1..Len(label_rows) |-> [t \in 1..Len(label_rows[b]) |-> label_rows[b][t] >= 0]]

\* Line 1017: labels_mask.sum(-1)
CountTrue(row) == Cardinality({ t \in 1..Len(row) : row[t] })

\* Line 1018: labels.masked_select(labels_mask), in row-major order.
RECURSIVE SelectFlat(_, _)
SelectFlat(values, keep) ==
    IF values = <<>> THEN <<>>
    ELSE (IF Head(keep) THEN <<Head(values)>> ELSE <<>>)
         \o SelectFlat(Tail(values), Tail(keep))

masked_select(label_rows, mask_rows) == SelectFlat(Flatten(label_rows), Flatten(mask_rows))

LabelValues == {-100, -1} \cup (0..MaxVocab)

\* Label tensors of every shape of at most MaxLabels entries.
LabelTensors ==
    UNION { UNION { [1..b -> [1..n -> LabelValues]] : n \in 1..(MaxLabels \div b) } :
              b \in 1..MaxLabels }

CtcIdle ==
    /\ vocab_size = 0
    /\ labels = <<>>
    /\ ctc_pc = "off"
    /\ ctc_error = ""
    /\ loss_input_lengths = <<>>
    /\ loss_target_lengths = <<>>
    /\ flattened_targets = <<>>
    /\ loss_computed = FALSE

\* Either the labels vary and the input is plain, or the attention mask,
\* the input length and the convolutions vary and the labels are plain: one
\* stage of every kernel and stride under masks of several rows, or several
\* stages of small kernels under masks of one row.
CtcInit ==
    /\ ctc_pc = "start"
    /\ ctc_error = ""
    /\ loss_input_lengths = <<>>
    /\ loss_target_lengths = <<>>
    /\ flattened_targets = <<>>
    /\ loss_computed = FALSE
    /\ len_pc = "off"
    /\ len_sub = -1
    /\ len_out = 0
    /\ mask_F = 0
    /\ mask_res = MaskResult(FALSE, <<>>)
    /\ vocab_size \in 1..MaxVocab
    /\ \/ /\ labels \in LabelTensors
          /\ mask_in = NoMask
          /\ len_in = 2
          /\ conv_kernel = <<1>>
          /\ conv_stride = <<2>>
          /\ num_conv_layers = 1
       \/ /\ \E c \in ConvConfigs(MaxMaskStages) :
                /\ conv_kernel = Kernels(c)
                /\ conv_stride = Strides(c)
                /\ num_conv_layers = Len(c)
          /\ \/ /\ mask_in = NoMask
                /\ len_in \in 1..MaxMaskT
                /\ labels \in { [b \in 1..n |-> <<0>>] : n \in 1..MaxRows }
             \/ /\ mask_in \in Masks2D
                /\ len_in = MaskTime(mask_in)
                /\ labels = [b \in 1..Len(mask_in.rows) |-> <<0>>]
       \/ /\ \E c \in SeqsOf({1, 2, 3} \X {1, 2}, MaxStages) :
                /\ conv_kernel = Kernels(c)
                /\ conv_stride = Strides(c)
                /\ num_conv_layers = Len(c)
          /\ labels = << <<0>> >>
          /\ \/ /\ mask_in = NoMask
                /\ len_in \in 1..MaxMaskT
             \/ /\ mask_in \in { m \in Masks2D : Len(m.rows) = 1 }
                /\ len_in = MaskTime(mask_in)

\* Lines 990-1000: outputs = self.mctc(...); logits = self.ctc_head(...).
\* The encoder raises when a convolution is wider than its input and when
\* the index assignment of the recomputed mask is out of range.
CtcEncode ==
    /\ ctc_pc = "start"
    /\ LET F   == Conv1dSubsampler_forward(conv_kernel, conv_stride, len_in)
           res == IF mask_in = NoMask \/ F < 0
                  THEN MaskResult(TRUE, <<>>)
                  ELSE get_feature_vector_attention_mask(
                           num_conv_layers, conv_kernel, conv_stride, F, mask_in)
       IN  IF F < 0
           THEN ctc_pc' = "error" /\ ctc_error' = "RuntimeError"
           ELSE IF ~res.ok
           THEN ctc_pc' = "error" /\ ctc_error' = "IndexError"
           ELSE ctc_pc' = "encoded" /\ ctc_error' = ""
    /\ UNCHANGED <<vocab_size, labels, loss_input_lengths, loss_target_lengths, flattened_targets,
                   loss_computed, rotVars, lenVars, encVars, attVars, subVars, procVars>>

\* Lines 1002-1005.
CtcValidate ==
    /\ ctc_pc = "encoded"
    /\ IF LabelsRejected(labels, vocab_size)
       THEN ctc_pc' = "error" /\ ctc_error' = "ValueError"
       ELSE ctc_pc' = "validated" /\ ctc_error' = ""
    /\ UNCHANGED <<vocab_size, labels, loss_input_lengths, loss_target_lengths, flattened_targets,
                   loss_computed, rotVars, lenVars, encVars, attVars, subVars, procVars>>

\* Lines 1007-1032.
CtcLoss ==
    /\ ctc_pc = "validated"
    /\ loss_input_lengths' = ctc_input_lengths(num_conv_layers, conv_kernel, conv_stride,
                                          mask_in, Len(labels), len_in)
    /\ LET mask == labels_mask(labels)
       IN  /\ loss_target_lengths' = [b \in 1..Len(labels) |-> CountTrue(mask[b])]
           /\ flattened_targets' = masked_select(labels, mask)
    /\ loss_computed' = TRUE
    /\ ctc_pc' = "done"
    /\ UNCHANGED <<vocab_size, labels, ctc_error,
                   rotVars, lenVars, encVars, attVars, subVars, procVars>>

-----------------------------------------------------------------------------
(* MCTCProcessor: __call__ and the as_target_processor context manager.    *)
(* scopes counts the with-blocks of as_target_processor control is inside. *)

Event(op, inside, current) == [op |-> op, inside |-> inside, current |-> current]

ProcIdle ==
    /\ current_processor = "off"
    /\ scopes = 0
    /\ proc_log = <<>>

\* __init__, line 43.
ProcInit ==
    /\ current_processor = "feature_extractor"
    /\ scopes = 0
    /\ proc_log = <<>>

\* __call__: return self.current_processor(*args, **kwargs)
ProcCall ==
    /\ Len(proc_log) < MaxEvents
    /\ proc_log' = Append(proc_log, Event("call", scopes > 0, current_processor))
    /\ UNCHANGED <<current_processor, scopes,
                   rotVars, lenVars, encVars, attVars, subVars, ctcVars>>

\* with processor.as_target_processor(): line 75, up to the yield.
EnterScope ==
    /\ Len(proc_log) < MaxEvents
    /\ scopes < MaxDepth
    /\ current_processor' = "tokenizer"
    /\ scopes' = scopes + 1
    /\ proc_log' = Append(proc_log, Event("enter", TRUE, "tokenizer"))
    /\ UNCHANGED <<rotVars, lenVars, encVars, attVars, subVars, ctcVars>>

\* The with-block ends normally: the generator resumes after the yield,
\* line 77.
ExitScope ==
    /\ Len(proc_log) < MaxEvents
    /\ scopes > 0
    /\ current_processor' = "feature_extractor"
    /\ scopes' = scopes - 1
    /\ proc_log' = Append(proc_log, Event("exit", scopes' > 0, "feature_extractor"))
    /\ UNCHANGED <<rotVars, lenVars, encVars, attVars, subVars, ctcVars>>

\* The with-block is left by an exception: it is thrown into the generator
\* at the yield, nothing catches it there, and line 77 does not run.
RaiseInScope ==
    /\ Len(proc_log) < MaxEvents
    /\ scopes > 0
    /\ scopes' = scopes - 1
    /\ proc_log' = Append(proc_log, Event("raise", scopes' > 0, current_processor))
    /\ UNCHANGED <<current_processor,
                   rotVars, lenVars, encVars, attVars, subVars, ctcVars>>

-----------------------------------------------------------------------------
(* Specifications.                                                         *)

RotIdle == rot_pc = "off" /\ rot_in = EmptyTensor /\ rot_out = EmptyTensor

LenIdle ==
    /\ conv_kernel = <<>>
    /\ conv_stride = <<>>
    /\ num_conv_layers = 0
    /\ len_pc = "off"
    /\ len_in = 0
    /\ len_sub = -1
    /\ len_out = 0
    /\ mask_in = NoMask
    /\ mask_F = 0
    /\ mask_res = MaskResult(FALSE, <<>>)

\* The relative-position rotator on its own.
InitRot == RotInit /\ LenIdle /\ EncIdle /\ AttIdle /\ SubIdle /\ CtcIdle /\ ProcIdle

NextRot == Rotate

SpecRot == InitRot /\ [][NextRot]_vars

\* The subsampler's lengths and the recomputed mask.
InitLen == LenInit /\ RotIdle /\ EncIdle /\ AttIdle /\ SubIdle /\ CtcIdle /\ ProcIdle

NextLen ==
    \/ CallSubsampler
    \/ CallGetLengths
    \/ CallGetMask

SpecLen == InitLen /\ [][NextLen]_vars

\* One forward pass of the encoder.
InitEnc == EncInit /\ RotIdle /\ AttIdle /\ SubIdle /\ CtcIdle /\ ProcIdle

NextEnc ==
    \/ \E p \in passes : Embed(p)
    \/ \E p \in passes : CheckHeadMask(p)
    \/ \E p \in passes : LayerStep(p)
    \/ \E p \in passes : Return(p)

SpecEnc == InitEnc /\ [][NextEnc]_vars

\* Two forward passes of the encoder, interleaved.
InitPair == PairInit /\ RotIdle /\ AttIdle /\ SubIdle /\ CtcIdle /\ ProcIdle

SpecPair == InitPair /\ [][NextEnc]_vars

\* The self-attention unit: construction, then one forward call.
InitAtt == AttInit /\ RotIdle /\ LenIdle /\ EncIdle /\ SubIdle /\ CtcIdle /\ ProcIdle

NextAtt ==
    \/ AttConstruct
    \/ AttForward

SpecAtt == InitAtt /\ [][NextAtt]_vars

\* The construction of the subsampler, then one forward call.
InitSub == SubInit /\ RotIdle /\ EncIdle /\ AttIdle /\ CtcIdle /\ ProcIdle

NextSub ==
    \/ SubConstruct
    \/ SubForward

SpecSub == InitSub /\ [][NextSub]_vars

\* MCTCForCTC.forward with labels.
InitCtc == CtcInit /\ SubIdle /\ RotIdle /\ EncIdle /\ AttIdle /\ ProcIdle

NextCtc ==
    \/ CtcEncode
    \/ CtcValidate
    \/ CtcLoss

SpecCtc == InitCtc /\ [][NextCtc]_vars

\* The processor wrapper.
InitProc == ProcInit /\ RotIdle /\ LenIdle /\ EncIdle /\ AttIdle /\ SubIdle /\ CtcIdle

NextProc ==
    \/ ProcCall
    \/ EnterScope
    \/ ExitScope
    \/ RaiseInScope

SpecProc == InitProc /\ [][NextProc]_vars

-----------------------------------------------------------------------------
(* The claims.                                                             *)

RotB == rot_in.shape[1]

RotH == rot_in.shape[2]

RotD0 == rot_in.shape[3]

RotD1 == rot_in.shape[4]

RotSymmetric == rot_pc = "done" /\ RotD0 = 2 * RotD1 - 1

\* C1, as stated: with D0 = 2*D1 - 1, the rotated score at (query i, key j)
\* is the input entry of query position i at distance index
\* i - j + (D0 div 2).
C1_Original ==
    RotSymmetric =>
        \A b \in 0..(RotB - 1), h \in 0..(RotH - 1), i \in 0..(RotD1 - 1), j \in 0..(RotD1 - 1) :
            At(rot_out, <<b, h, i, j>>) = At(rot_in, <<b, h, i - j + (RotD0 \div 2), i>>)

\* C1, amended: with D0 = 2*D1 - 1, the output has shape (batch, heads, D1,
\* D1) and the rotated score at (query i, key j) is the input entry of query
\* position i at distance index j - i + (D0 div 2).
C1_Amended ==
    RotSymmetric =>
        /\ rot_out.shape = <<RotB, RotH, RotD1, RotD1>>
        /\ \A b \in 0..(RotB - 1), h \in 0..(RotH - 1), i \in 0..(RotD1 - 1), j \in 0..(RotD1 - 1) :
              At(rot_out, <<b, h, i, j>>) = At(rot_in, <<b, h, j - i + (RotD0 \div 2), i>>)

\* The rotator has run on a 7 x 4 score tensor whose entries all differ.
C1_Witness ==
    /\ rot_pc = "done"
    /\ rot_in = CodedTensor(<<1, 2, 7, 4>>)
    /\ At(rot_out, <<0, 1, 3, 0>>) = At(rot_in, <<0, 1, 0, 3>>)

ConsistentConv ==
    num_conv_layers = Len(conv_kernel) /\ Len(conv_kernel) = Len(conv_stride)

\* The length formula as the specification writes it.
RECURSIVE IteratedLength(_, _, _, _)
IteratedLength(i, kernels, strides, length) ==
    IF i > Len(kernels)
    THEN length
    ELSE IteratedLength(i + 1, kernels, strides,
                        ((length - kernels[i]) \div strides[i]) + 1)

\* C2, as stated: the time length of the subsampler's output is the iterated
\* length formula applied to the input's time length T; T = 50 with one
\* stage of kernel 5 and stride 2 gives 23.
C2_Claim ==
    (len_pc \in {"measured", "done"} /\ ConsistentConv /\ len_sub >= 0) =>
        /\ len_sub = len_out
        /\ (len_in = 50 /\ conv_kernel = <<5>> /\ conv_stride = <<2>>) => len_sub = 23

\* C3: _get_feat_extract_output_lengths maps a length through the stages in
\* configured order, each stage replacing it by floor((length - kernel) /
\* stride) + 1; kernel 3 and stride 2 map 10 to 4.
C3_LengthFormula ==
    (len_pc \in {"measured", "done"} /\ ConsistentConv) =>
        /\ len_out = IteratedLength(1, conv_kernel, conv_stride, len_in)
        /\ (len_in = 10 /\ conv_kernel = <<3>> /\ conv_stride = <<2>>) => len_out = 4

\* The formula has been applied to a length of 10 with kernel 3, stride 2,
\* and to a length that two stages shorten in turn.
C3_Witness ==
    /\ len_pc = "measured"
    /\ len_in = 10
    /\ conv_kernel = <<3>>
    /\ conv_stride = <<2>>
    /\ len_out = 4

\* C4: every row of a mask that _get_feature_vector_attention_mask returns
\* is a prefix of 1s followed only by 0s, and holds nothing but 0 and 1.
C4_PrefixMask ==
    (len_pc = "done" /\ mask_res.ok) =>
        \A b \in 1..Len(mask_res.mask) :
            /\ Len(mask_res.mask[b]) = mask_F
            /\ \A t \in 1..mask_F :
                  /\ mask_res.mask[b][t] \in {0, 1}
                  /\ \A u \in t..mask_F :
                        mask_res.mask[b][t] = 0 => mask_res.mask[b][u] = 0

\* A mask of two rows has been recomputed, to a row with 1s and 0s in it.
C4_Witness ==
    /\ len_pc = "done"
    /\ mask_res.ok
    /\ Len(mask_res.mask) = 2
    /\ mask_F = 3
    /\ mask_res.mask[1] = <<1, 1, 0>>
    /\ mask_in.rows[1] = <<1, 0, 1>>

MaskRows2D == IF mask_in.dims > 2 THEN LastChannel(mask_in.rows) ELSE mask_in.rows

\* The position of the last valid frame of a row, counted as a length.
ValidExtent(row) ==
    IF \E t \in 1..Len(row) : row[t] = 1
    THEN CHOOSE t \in 1..Len(row) : row[t] = 1 /\ \A u \in (t + 1)..Len(row) : row[u] = 0
    ELSE 0

LeadingOnes(row) == Cardinality({ t \in 1..Len(row) : \A u \in 1..t : row[u] = 1 })

\* C5, as stated: in the mask the encoder recomputes, the number of leading
\* valid positions of a row is the length formula applied to the row's valid
\* extent in the original mask, for every extent from 0 to the time length.
C5_Claim ==
    (len_pc = "done" /\ mask_res.ok /\ mask_F = len_sub) =>
        \A b \in 1..Len(mask_res.mask) :
            LeadingOnes(mask_res.mask[b])
              = IteratedLength(1, conv_kernel, conv_stride, ValidExtent(MaskRows2D[b]))

PostEmbedding ==
    Term("hidden_states", Conv1dSubsampler_forward(conv_kernel, conv_stride, len_in), <<>>)

ExecutedLayers(p) == [i \in 1..Len(calls[p]) |-> calls[p][i].layer]

LayersUpTo(n) == [i \in 1..n |-> i - 1]

Finished(p) == pc[p] \in {"done", "error"}

\* C6: with layerdrop = 1.0, in training mode and without ZeRO-3, every
\* layer is skipped whatever the draws are, and the final hidden state is the
\* post-embedding hidden state.
C6_AllLayersSkipped ==
    \A p \in passes :
        (training /\ layerdrop = Resolution /\ ~deepspeed_zero3_is_enabled
           /\ pc[p] \in {"loop", "done"}) =>
            /\ calls[p] = <<>>
            /\ Len(draws[p]) = idx[p]
            /\ hidden_states[p] = PostEmbedding
            /\ pc[p] = "done" =>
                  /\ idx[p] = num_hidden_layers
                  /\ result[p].returned
                  /\ result[p].last_hidden_state = PostEmbedding

\* A pass of two or more layers has returned with layerdrop = 1.0, in
\* training mode, without ZeRO-3, on draws that differ.
C6_Witness ==
    /\ pc[1] = "done"
    /\ training
    /\ layerdrop = Resolution
    /\ ~deepspeed_zero3_is_enabled
    /\ num_hidden_layers >= 2
    /\ draws[1][1] # draws[1][2]

\* C7: outside training mode no layer is skipped: the layers 0..L-1 are
\* each executed once, in order, for every layerdrop and every draw.
C7_NoSkipInEval ==
    \A p \in passes :
        ~training =>
            /\ pc[p] \in {"loop", "done"} => ExecutedLayers(p) = LayersUpTo(idx[p])
            /\ pc[p] = "done" => ExecutedLayers(p) = LayersUpTo(num_hidden_layers)
            /\ pc[p] = "error" => calls[p] = <<>>

\* A pass of two or more layers has returned outside training mode with
\* layerdrop = 1.0.
C7_Witness ==
    /\ pc[1] = "done"
    /\ ~training
    /\ layerdrop = Resolution
    /\ num_hidden_layers >= 2
    /\ Len(calls[1]) = num_hidden_layers

\* C8, as stated: under ZeRO-3 two replicas with independent draws execute
\* the same sequence of layers, every layer 0..L-1, whatever the draws and
\* layerdrop are.
C8_Claim ==
    (~sync_draws /\ passes = Passes /\ deepspeed_zero3_is_enabled
       /\ \A p \in Passes : Finished(p)) =>
        \A p \in Passes : ExecutedLayers(p) = LayersUpTo(num_hidden_layers)

Outputs(p) ==
    <<result[p].returned, result[p].last_hidden_state, result[p].hidden_states,
      result[p].attentions>>

\* C9, as stated: in training mode, for the same inputs, draws and flags,
\* the pass with gradient checkpointing returns what the pass without it
\* returns, and each layer receives the same arguments on both.
C9_Claim ==
    (sync_draws /\ passes = Passes /\ training
       /\ gradient_checkpointing[1] # gradient_checkpointing[2]
       /\ head_mask[1] = head_mask[2]
       /\ \A p \in Passes : Finished(p)) =>
        /\ Outputs(1) = Outputs(2)
        /\ calls[1] = calls[2]

\* C10: a head mask whose row count differs from the number of layers makes
\* the pass fail before any layer is executed, with nothing returned; a head
\* mask whose row count is the number of layers passes the check.
C10_HeadMaskCheck ==
    \A p \in passes :
        head_mask[p].given =>
            /\ (head_mask[p].rows # num_hidden_layers /\ pc[p] \notin {"start", "check"}) =>
                  /\ pc[p] = "error"
                  /\ calls[p] = <<>>
                  /\ draws[p] = <<>>
                  /\ ~result[p].returned
                  /\ hidden_states[p] # None => error[p] = "AssertionError"
            /\ head_mask[p].rows = num_hidden_layers => error[p] # "AssertionError"

\* A pass given a head mask of L + 1 rows has failed at the check.
C10_Witness ==
    /\ pc[1] = "error"
    /\ error[1] = "AssertionError"
    /\ head_mask[1] = HeadMaskOf(num_hidden_layers + 1)
    /\ hidden_states[1] = PostEmbedding

AllLabels == { Flatten(labels)[k] : k \in 1..Len(Flatten(labels)) }

LabelInVocabulary(v) == v = -100 \/ (0 <= v /\ v < vocab_size)

\* C11, as stated: with labels supplied, a label that is neither the
\* sentinel -100 nor in 0..vocab_size-1 makes forward fail before the loss is
\* computed, and labels that are all the sentinel or in 0..vocab_size-1 pass
\* the validation.
C11_Claim ==
    /\ (ctc_pc \in {"validated", "done"} \/ loss_computed) =>
          \A v \in AllLabels : LabelInVocabulary(v)
    /\ (ctc_pc = "error" /\ ctc_error = "ValueError") =>
          \E v \in AllLabels : ~LabelInVocabulary(v)

\* C12: constructing the subsampler with more than one stage and no
\* conv_channels raises the configuration error (ValueError); with exactly
\* one stage (one kernel, one stride) and no conv_channels it succeeds.
C12_ChannelSchedule ==
    sub_pc # "new" =>
        /\ (num_conv_layers > 1 /\ ~conv_channels.given) =>
              sub_pc = "error" /\ sub_error = "ValueError"
        /\ (num_conv_layers = 1 /\ ConsistentConv /\ ~conv_channels.given) =>
              sub_pc = "built" /\ sub_error = ""

\* The constructor has refused two stages without conv_channels.
C12_Witness ==
    /\ sub_pc = "error"
    /\ sub_error = "ValueError"
    /\ num_conv_layers = 2
    /\ Len(conv_kernel) = 2
    /\ conv_channels = NoChannels

\* C13, as stated: for every configuration the constructor accepts and every
\* input of shape (batch, time, hidden), forward returns a context tensor of
\* the input's shape.
C13_Claim ==
    att_pc \in {"done", "error"} =>
        (SelfAttentionAccepts(hidden_size, num_attention_heads, has_embedding_size) =>
            att_pc = "done" /\ att_out = att_in)

CallEvents == { k \in 1..Len(proc_log) : proc_log[k].op = "call" }

\* C14, as stated: a __call__ made inside an as_target_processor scope goes
\* to the tokenizer, and a __call__ made outside every scope goes to the
\* feature extractor, over every sequence of calls, entries and exits.
C14_Claim ==
    \A k \in CallEvents :
        proc_log[k].current = IF proc_log[k].inside THEN "tokenizer" ELSE "feature_extractor"

NonNegative(b) == { t \in 1..Len(labels[b]) : labels[b][t] >= 0 }

\* The number of non-negative labels at or before (b, t) in row-major order.
RankOf(b, t) ==
    Cardinality({ c \in (1..Len(labels)) \X (1..Len(labels[1])) :
                    /\ labels[c[1]][c[2]] >= 0
                    /\ (c[1] < b \/ (c[1] = b /\ c[2] <= t)) })

\* C15: each row's target length is the number of non-negative labels of the
\* row, and the flattened targets are exactly the non-negative labels, in
\* row-major order; no negative label reaches the loss.
C15_Targets ==
    ctc_pc = "done" =>
        /\ Len(loss_target_lengths) = Len(labels)
        /\ \A b \in 1..Len(labels) : loss_target_lengths[b] = Cardinality(NonNegative(b))
        /\ Len(flattened_targets) = SumSeq(loss_target_lengths)
        /\ \A b \in 1..Len(labels) : \A t \in NonNegative(b) :
              flattened_targets[RankOf(b, t)] = labels[b][t]
        /\ \A k \in 1..Len(flattened_targets) : flattened_targets[k] >= 0

\* The loss has been computed for two rows padded with -100 and holding -1.
C15_Witness ==
    /\ ctc_pc = "done"
    /\ labels = << <<1, -100>>, <<-1, 0>> >>
    /\ loss_target_lengths = <<1, 1>>
    /\ flattened_targets = <<1, 0>>

HiddenStatesRequested ==
    output_hidden_states = "True"
      \/ (output_hidden_states = "None" /\ config_output_hidden_states)

CallsOfLayer(p, i) == { k \in 1..Len(calls[p]) : calls[p][k].layer = i }

\* C17: with hidden-state collection requested the pass returns L + 1
\* snapshots: snapshot i is the hidden state layer i is given, snapshot L the
\* final hidden state, and across a layer that is not executed the snapshot
\* does not change.
C17_Snapshots ==
    \A p \in passes :
        (HiddenStatesRequested /\ pc[p] = "done") =>
            LET snapshots == result[p].hidden_states
            IN  /\ Len(snapshots) = num_hidden_layers + 1
                /\ snapshots[1] = PostEmbedding
                /\ snapshots[num_hidden_layers + 1] = result[p].last_hidden_state
                /\ \A i \in 0..(num_hidden_layers - 1) :
                      /\ \A k \in CallsOfLayer(p, i) :
                            calls[p][k].hidden_states = snapshots[i + 1]
                      /\ CallsOfLayer(p, i) = {} => snapshots[i + 2] = snapshots[i + 1]

\* A pass of two layers has returned three snapshots, having skipped one
\* layer and executed the other.
C17_Witness ==
    /\ pc[1] = "done"
    /\ output_hidden_states = "True"
    /\ ~config_output_hidden_states
    /\ num_hidden_layers = 2
    /\ ExecutedLayers(1) = <<1>>
    /\ Len(result[1].hidden_states) = 3
    /\ result[1].hidden_states[2] = PostEmbedding
    /\ result[1].hidden_states[3] # PostEmbedding

AttentionsRequested ==
    output_attentions = "True" \/ (output_attentions = "None" /\ config_output_attentions)

\* C18, as stated: with attention collection requested the pass returns one
\* entry per layer, and the entry of every executed layer is that layer's
\* attention probabilities (after softmax, dropout and head gate), not the
\* scores before the softmax.
C18_Claim ==
    \A p \in passes :
        (AttentionsRequested /\ pc[p] = "done") =>
            /\ Len(result[p].attentions) = num_hidden_layers
            /\ \A i \in 0..(num_hidden_layers - 1) :
                  \A k \in CallsOfLayer(p, i) :
                      result[p].attentions[i + 1]
                        = MCTCLayer_forward(i, calls[p][k].hidden_states,
                                            calls[p][k].attention_mask,
                                            calls[p][k].head_mask, TRUE)[3]


ValidFrames(b) ==
    IF mask_in = NoMask THEN len_in
    ELSE Cardinality({ t \in 1..Len(mask_in.rows[b]) : mask_in.rows[b][t] = 1 })

\* C19: each row's frame count handed to the loss is the encoder's length
\* formula applied to the number of valid frames of the row in the 2-D
\* attention mask, and to the input's time length when there is no mask.
C19_InputLengths ==
    (ctc_pc = "done" /\ ConsistentConv) =>
        /\ Len(loss_input_lengths) = Len(labels)
        /\ \A b \in 1..Len(labels) :
              loss_input_lengths[b]
                = IteratedLength(1, conv_kernel, conv_stride, ValidFrames(b))

\* The loss has been computed for a mask of two rows with 3 and 1 valid
\* frames out of 3.
C19_Witness ==
    /\ ctc_pc = "done"
    /\ mask_in = [dims |-> 2, rows |-> << <<1, 1, 1>>, <<1, 0, 0>> >>]
    /\ conv_kernel = <<1>>
    /\ conv_stride = <<2>>
    /\ loss_input_lengths = <<2, 1>>

\* C20, as stated: whenever control leaves an as_target_processor scope,
\* normally or by an exception, the current processor is the feature
\* extractor again, and the next __call__ outside the scope goes to it.
C20_Claim ==
    \A k \in 1..Len(proc_log) :
        proc_log[k].op \in {"exit", "raise"} =>
            /\ proc_log[k].current = "feature_extractor"
            /\ (k < Len(proc_log) /\ proc_log[k + 1].op = "call" /\ ~proc_log[k + 1].inside) =>
                  proc_log[k + 1].current = "feature_extractor"

LogitsLength == Conv1dSubsampler_forward(conv_kernel, conv_stride, len_in)

\* C22: each row's frame count handed to the loss is at most the time length
\* of the logits the encoder produces from the padded input.
C22_FramesWithinLogits ==
    (ctc_pc = "done" /\ ConsistentConv) =>
        \A b \in 1..Len(loss_input_lengths) : loss_input_lengths[b] <= LogitsLength

\* The loss has been computed for two stages and a mask of three valid
\* frames: 1 frame is handed to the loss, the logits hold 2.
C22_Witness ==
    /\ ctc_pc = "done"
    /\ conv_kernel = <<2, 1>>
    /\ conv_stride = <<1, 2>>
    /\ mask_in = [dims |-> 2, rows |-> << <<1, 1, 1>> >>]
    /\ loss_input_lengths = <<1>>
    /\ LogitsLength = 2

RotLong == rot_pc = "done" /\ RotD1 > (RotD0 \div 2) + 1

DistanceIndex(i, j) == (RotD0 \div 2) + j - i

\* C23: when D1 > (D0 div 2) + 1 the output has shape (batch, heads, D1,
\* D1); a pair (query i, key j) whose distance index (D0 div 2) + j - i is
\* outside 0..D0-1 gets 0, and a pair whose index is inside gets the input
\* entry of query i at that index.
C23_LongSequence ==
    RotLong =>
        /\ rot_out.shape = <<RotB, RotH, RotD1, RotD1>>
        /\ \A b \in 0..(RotB - 1), h \in 0..(RotH - 1),
              i \in 0..(RotD1 - 1), j \in 0..(RotD1 - 1) :
              At(rot_out, <<b, h, i, j>>)
                = IF DistanceIndex(i, j) \in 0..(RotD0 - 1)
                  THEN At(rot_in, <<b, h, DistanceIndex(i, j), i>>)
                  ELSE 0

\* The rotator has run on 3 distances and 4 positions: the pair (3, 0) is
\* out of the table's reach and the pair (0, 1) is within it.
C23_Witness ==
    /\ rot_pc = "done"
    /\ rot_in = CodedTensor(<<1, 2, 3, 4>>)
    /\ At(rot_out, <<0, 1, 3, 0>>) = 0
    /\ At(rot_out, <<0, 1, 0, 1>>) = At(rot_in, <<0, 1, 2, 0>>)

DrawSelectsSkip(p, i) == draws[p][i + 1] < layerdrop

InChain(p, i) ==
    \E k \in 1..Len(hidden_states[p].chain) : hidden_states[p].chain[k].layer = i

\* C24, as stated: under ZeRO-3 in training, a layer whose draw selects it
\* for skipping is executed all the same and its output replaces the hidden
\* state, while its entry in the collected attentions is None; a layer whose
\* draw does not select skipping has an entry that is not None.
C24_Claim ==
    \A p \in passes :
        (deepspeed_zero3_is_enabled /\ training /\ pc[p] \in {"loop", "done", "error"}) =>
            \A i \in 0..(Len(draws[p]) - 1) :
                /\ DrawSelectsSkip(p, i) =>
                      /\ CallsOfLayer(p, i) # {}
                      /\ InChain(p, i)
                /\ AttentionsRequested =>
                      /\ Len(all_attentions[p]) > i
                      /\ (all_attentions[p][i + 1] = None) = DrawSelectsSkip(p, i)

MidChannels == IF num_conv_layers > 1 THEN conv_channels ELSE NoChannels

\* C25, as stated: for a subsampler of n >= 2 stages whose channel schedule
\* construction accepts, the declared input channels of every stage i >= 1
\* are the channels stage i - 1 produces after the gated linear unit has
\* halved them, the last stage produces hidden_size channels after its gate,
\* and forward never meets a channel mismatch.
C25_Claim ==
    (sub_pc = "built" /\ sub_fwd # "idle" /\ num_conv_layers >= 2
       /\ ConsistentConv /\ conv_channels.given) =>
        /\ \A i \in 1..(Len(conv_kernel) - 1) :
              2 * DeclaredIn(i, num_conv_layers, MidChannels, in_channels)
                = DeclaredOut(i - 1, num_conv_layers, MidChannels, out_channels)
        /\ DeclaredOut(Len(conv_kernel) - 1, num_conv_layers, MidChannels, out_channels)
              = out_channels
        /\ sub_fwd \notin {"channels", "glu"}

====
